---- MODULE Spec2Model ----
(***************************************************************************)
(* Model of linux-debug-setup-py: the resumable kernel build pipeline      *)
(* (scripts/kernel.py, scripts/state.py), the partition planner with the   *)
(* installer phases (scripts/config.py, scripts/rootfs.py) and one run of  *)
(* main with the launch scripts (scripts/main.py, scripts/clean.py,        *)
(* scripts/template.py, scripts/utils.py).                                 *)
(***************************************************************************)
EXTENDS Integers, Sequences, FiniteSets, TLC

VARIABLES
    stateFile,      \* content of .state/kernel_state.json
    srcTree,        \* what the linux source directory holds
    buildCfg,       \* progress of the .config in the build directory
    overlay,        \* configure_overlay of the kernel configuration, in order
    pc,             \* position of the running build_bzImage call
    ovIdx,          \* index of the overlay loop in configure_source
    trace,          \* tool invocations of the current (or last) call
    result,         \* how the last build_bzImage call ended
    startRecord,    \* content of the state record when the call began
    afterFullRun,   \* the call began after a fully successful invocation
    partitions,     \* conf_sec["partitions"] as declared
    boot_mode,      \* boot_mode of the qemu section
    parsed,         \* outcome of RootfsConfig.parse
    cached,         \* cached_rootfs_config.partitions_with_order (mutable list)
    ipc,            \* position of the installer in pre_install
    loopIdx,        \* index of the running for-loop in pre_install
    sent,           \* lines sent to the console, in order
    args,           \* the command-line flags main was started with
    mpc,            \* position of main
    img,            \* the rootfs image file
    iso,            \* the installation ISO file
    child,          \* the console session pexpect.spawn returned
    step,           \* index of the wait a running installer phase is at
    log,            \* what main has run so far, in order
    script,         \* the launch scripts gen_run_qemu_sh wrote
    disk0,          \* the files as they were when main first started
    cpu_count,      \* what os.cpu_count() returns (0 for None)
    jobs,           \* the -j value last computed for make (-1: none yet)
    console,        \* console output the session has not matched yet
    consumed        \* the output each matched wait consumed, in order

kvars == <<stateFile, srcTree, buildCfg, overlay, pc, ovIdx, trace, result,
           startRecord, afterFullRun>>
ivars == <<partitions, boot_mode, parsed, cached, ipc, loopIdx, sent>>
evars == <<cpu_count, jobs, console, consumed>>
mvars == <<args, mpc, img, iso, child, step, log, script, disk0, evars>>
vars == <<stateFile, srcTree, buildCfg, overlay, pc, ovIdx, trace, result,
          startRecord, afterFullRun,
          partitions, boot_mode, parsed, cached, ipc, loopIdx, sent,
          args, mpc, img, iso, child, step, log, script, disk0,
          cpu_count, jobs, console, consumed>>

(***************************************************************************)
(* Bounds                                                                  *)
(***************************************************************************)
MaxOverlay == 2
MaxParts == 3
MaxCores == 128
MaxConsole == 20

(***************************************************************************)
(* scripts/args.py, scripts/main.py: the flags and the files main works on *)
(***************************************************************************)
Args == [distclean : BOOLEAN, clean_linux : BOOLEAN, rebuild_rootfs : BOOLEAN,
         force_skip_rootfs : BOOLEAN, skip_build_kernel : BOOLEAN]

NoDevice == [disk |-> "", n |-> 0]

\* run_qemu.sh and run_qemu_debug.sh: the root= device each was written with.
NoScript == [run_qemu_sh |-> NoDevice, run_qemu_debug_sh |-> NoDevice]

\* The files main can delete, create or write.
Files == [stateFile |-> stateFile, srcTree |-> srcTree, buildCfg |-> buildCfg,
          img |-> img, iso |-> iso, script |-> script]

\* Nothing is known of the processor count yet and the console is silent.
EnvNotObserved ==
    /\ cpu_count = 0
    /\ jobs = -1
    /\ console = <<>>
    /\ consumed = <<>>

\* main has not been entered: the pipeline or the installer is run alone.
MainNotStarted ==
    /\ args = [distclean |-> FALSE, clean_linux |-> FALSE,
               rebuild_rootfs |-> FALSE, force_skip_rootfs |-> FALSE,
               skip_build_kernel |-> FALSE]
    /\ mpc = "none"
    /\ img = "absent"
    /\ iso = "absent"
    /\ child = "none"
    /\ step = 0
    /\ log = <<>>
    /\ script = NoScript
    /\ disk0 = Files
    /\ EnvNotObserved

(***************************************************************************)
(* scripts/state.py                                                        *)
(***************************************************************************)
DEFAULT_NOT_INIT == "default_not_init"
SRC_CLONED == "src_cloned"
SRC_CONFIGURED == "src_configured"
SRC_BUILT == "src_built"

KernelState == {DEFAULT_NOT_INIT, SRC_CLONED, SRC_CONFIGURED, SRC_BUILT}

\* Contents the state record can have besides a well-formed record.
MalformedRecords == {"empty", "not_json", "non_object", "no_key", "bad_value"}
RecordContents == {"missing"} \cup MalformedRecords \cup KernelState

\* json.load(f), then data["state"], then KernelState(...): the value read or
\* the exception the first failing step raises.
ReadRecord(c) ==
    CASE c \in {"empty", "not_json"} -> "JSONDecodeError"
      [] c = "non_object" -> "TypeError"
      [] c = "no_key" -> "KeyError"
      [] c = "bad_value" -> "ValueError"
      [] OTHER -> c

\* The exceptions the except clause of get_state names.
GetStateCaught == {"FileNotFoundError", "JSONDecodeError", "KeyError"}

get_state(c) ==
    IF c = "missing"
    THEN DEFAULT_NOT_INIT
    ELSE IF ReadRecord(c) \in GetStateCaught
         THEN DEFAULT_NOT_INIT
         ELSE ReadRecord(c)

\* Outcomes of makedirs + open(.., "w") + json.dump: the record is written,
\* nothing could be opened, or the file was truncated and the write failed.
WriteOutcomes == {"written", "unwritable", "truncated"}

set_state(old, state, outcome) ==
    CASE outcome = "written" -> state
      [] outcome = "unwritable" -> old
      [] outcome = "truncated" -> "empty"

(***************************************************************************)
(* scripts/kernel.py                                                       *)
(***************************************************************************)
CloneTools == {"git_init", "git_remote_add", "git_fetch", "git_checkout"}
ConfigureTools == {"make_defconfig", "config_script", "make_oldconfig"}
BuildTools == {"bear_make"}
StageTools == CloneTools \cup ConfigureTools \cup BuildTools

StageOf(tool) ==
    CASE tool \in CloneTools -> 1
      [] tool \in ConfigureTools -> 2
      [] tool \in BuildTools -> 3
      [] OTHER -> 0

OverlayTags == {"Y", "N", "M", "Str", "Num"}
OverlayLists == UNION {[1..n -> OverlayTags] : n \in 0..MaxOverlay}

\* Levels of the source directory: nothing, a directory git init left behind
\* when it failed, an initialised repository, with its remote, with
\* FETCH_HEAD, with the work tree checked out.
TreeRank(t) ==
    CASE t = "absent" -> 0
      [] t = "partial" -> 1
      [] t = "inited" -> 2
      [] t = "remote" -> 3
      [] t = "fetched" -> 4
      [] t = "checked" -> 5

TreeMax(a, b) == IF TreeRank(a) >= TreeRank(b) THEN a ELSE b

Entry(tool, arg, ok) == [tool |-> tool, arg |-> arg, ok |-> ok]

\* StartStage with the SRC_CLONED case sent to the clone stage.
StartStageReclone(s) ==
    CASE s = DEFAULT_NOT_INIT -> "prepare_source"
      [] s = SRC_CLONED -> "prepare_source"
      [] s = SRC_CONFIGURED -> "build_source"
      [] OTHER -> "return"

\* The match statement of build_bzImage: the stage the call starts with.
StartStage(s) ==
    CASE s = DEFAULT_NOT_INIT -> "prepare_source"
      [] s = SRC_CLONED -> "configure_source"
      [] s = SRC_CONFIGURED -> "build_source"
      [] OTHER -> "return"

\* subprocess.run without check=True: the exit status is ignored.
run_under_source_dir_unchecked(ok, next) == next

\* check=True: a non-zero exit raises CalledProcessError, otherwise the
\* caller goes on with its next statement.
run_under_source_dir_checked(ok, next) == IF ok THEN next ELSE "raise"

\* The except clause re-raising without removing the tree.
rmtree_skipped(t) == t

\* shutil.rmtree(linux_src) in the except clause of prepare_source.
rmtree(t) == "absent"

Init ==
    /\ stateFile = "missing"
    /\ srcTree = "absent"
    /\ buildCfg = 0
    /\ overlay \in OverlayLists
    /\ pc = "idle"
    /\ ovIdx = 0
    /\ trace = <<>>
    /\ result = "none"
    /\ startRecord = "missing"
    /\ afterFullRun = FALSE
    /\ partitions = <<>>
    /\ boot_mode = "UEFI"
    /\ parsed = [err |-> "unparsed", plan |-> <<>>]
    /\ cached = <<>>
    /\ ipc = "config"
    /\ loopIdx = 0
    /\ sent = <<>>
    /\ MainNotStarted

\* apply_custom_config with every case calling the script with --enable.
apply_custom_config_enable_only(tag) == "--enable"

\* apply_custom_config: the flag the configuration script is called with.
apply_custom_config(tag) ==
    CASE tag = "Y" -> "--enable"
      [] tag = "N" -> "--disable"
      [] tag = "M" -> "--module"
      [] tag = "Str" -> "--set-str"
      [] tag = "Num" -> "--set-val"

\* Every entry succeeded, the first one belongs to the clone stage and the
\* last one is the build tool: clone, configure and build all succeeded.
FullSuccess(tr) ==
    /\ tr # <<>>
    /\ \A i \in 1..Len(tr) : tr[i].ok
    /\ tr[1].tool \in CloneTools
    /\ tr[Len(tr)].tool \in BuildTools

\* Where a stage begins; prepare_source skips git init and git remote add
\* when the source directory exists.
EntryPc(stage) ==
    CASE stage = "prepare_source" ->
            IF srcTree = "absent" THEN "git_init" ELSE "git_fetch"
      [] stage = "configure_source" -> "make_defconfig"
      [] stage = "build_source" -> "bear_make"

Raise(e) ==
    /\ pc' = "idle"
    /\ result' = e

build_bzImage ==
    /\ pc = "idle"
    /\ trace' = <<>>
    /\ startRecord' = stateFile
    /\ afterFullRun' = (afterFullRun \/ FullSuccess(trace))
    /\ ovIdx' = 0
    /\ LET s == get_state(stateFile) IN
         IF s \notin KernelState
         THEN Raise(s)
         ELSE IF StartStage(s) = "return"
              THEN /\ pc' = "idle"
                   /\ result' = "ok"
              ELSE /\ pc' = EntryPc(StartStage(s))
                   /\ result' = "running"
    /\ UNCHANGED <<stateFile, srcTree, buildCfg, overlay>>
    /\ UNCHANGED <<ivars, mvars>>

\* subprocess.run(["git", "init", linux_src], check=True) inside the try.
git_init ==
    /\ pc = "git_init"
    /\ \E ok \in BOOLEAN :
         /\ trace' = Append(trace, Entry("git_init", "", ok))
         /\ IF ok
            THEN /\ srcTree' = "inited"
                 /\ pc' = "git_remote_add"
            ELSE /\ srcTree' \in {"absent", "partial"}
                 /\ pc' = "cleanup"
    /\ UNCHANGED <<stateFile, buildCfg, overlay, ovIdx, result, startRecord,
                   afterFullRun>>
    /\ UNCHANGED <<ivars, mvars>>

git_remote_add ==
    /\ pc = "git_remote_add"
    /\ \E ok \in BOOLEAN :
         /\ trace' = Append(trace, Entry("git_remote_add", "", ok))
         /\ srcTree' = IF ok THEN "remote" ELSE srcTree
         /\ pc' = IF run_under_source_dir_checked(ok, "git_fetch") = "raise"
                  THEN "cleanup"
                  ELSE "git_fetch"
    /\ UNCHANGED <<stateFile, buildCfg, overlay, ovIdx, result, startRecord,
                   afterFullRun>>
    /\ UNCHANGED <<ivars, mvars>>

\* except Exception as e: shutil.rmtree(linux_src); raise e
cleanup ==
    /\ pc = "cleanup"
    /\ IF srcTree = "absent"
       THEN /\ Raise("FileNotFoundError")
            /\ UNCHANGED srcTree
       ELSE /\ srcTree' = rmtree(srcTree)
            /\ Raise("CalledProcessError")
    /\ UNCHANGED <<stateFile, buildCfg, overlay, ovIdx, trace, startRecord,
                   afterFullRun>>
    /\ UNCHANGED <<ivars, mvars>>

\* A tool of the clone stage called inside the try block: its failure
\* reaches the except clause.
CheckedStepInsideTry(ok, next) ==
    IF run_under_source_dir_checked(ok, next) = "raise"
    THEN /\ pc' = "cleanup"
         /\ UNCHANGED result
    ELSE /\ pc' = next
         /\ UNCHANGED result

\* A tool called through run_under_source_dir_checked outside the try block.
CheckedStep(ok, next) ==
    IF run_under_source_dir_checked(ok, next) = "raise"
    THEN Raise("CalledProcessError")
    ELSE /\ pc' = next
         /\ UNCHANGED result

git_fetch ==
    /\ pc = "git_fetch"
    /\ \E ok \in BOOLEAN :
         /\ ok => TreeRank(srcTree) >= TreeRank("remote")
         /\ trace' = Append(trace, Entry("git_fetch", "", ok))
         /\ srcTree' = IF ok THEN TreeMax(srcTree, "fetched") ELSE srcTree
         /\ CheckedStep(ok, "git_checkout")
    /\ UNCHANGED <<stateFile, buildCfg, overlay, ovIdx, startRecord,
                   afterFullRun>>
    /\ UNCHANGED <<ivars, mvars>>

git_checkout ==
    /\ pc = "git_checkout"
    /\ \E ok \in BOOLEAN :
         /\ ok => TreeRank(srcTree) >= TreeRank("fetched")
         /\ trace' = Append(trace, Entry("git_checkout", "", ok))
         /\ srcTree' = IF ok THEN "checked" ELSE srcTree
         /\ CheckedStep(ok, "set_cloned")
    /\ UNCHANGED <<stateFile, buildCfg, overlay, ovIdx, startRecord,
                   afterFullRun>>
    /\ UNCHANGED <<ivars, mvars>>

\* KernelMachine.set_state(KernelState.SRC_CLONED) at the end of prepare_source.
set_cloned ==
    /\ pc = "set_cloned"
    /\ \E o \in WriteOutcomes :
         /\ stateFile' = set_state(stateFile, SRC_CLONED, o)
         /\ trace' = Append(trace, Entry("set_state", SRC_CLONED, o = "written"))
    /\ pc' = "make_defconfig"
    /\ UNCHANGED <<srcTree, buildCfg, overlay, ovIdx, result, startRecord,
                   afterFullRun>>
    /\ UNCHANGED <<ivars, mvars>>

make_defconfig ==
    /\ pc = "make_defconfig"
    /\ \E ok \in BOOLEAN :
         /\ ok => srcTree = "checked"
         /\ trace' = Append(trace, Entry("make_defconfig", "", ok))
         /\ buildCfg' = IF ok THEN 1 ELSE buildCfg
         /\ CheckedStep(ok, IF Len(overlay) = 0 THEN "make_oldconfig"
                                                ELSE "config_script")
    /\ ovIdx' = 1
    /\ UNCHANGED <<stateFile, srcTree, overlay, startRecord, afterFullRun>>
    /\ UNCHANGED <<ivars, mvars>>

\* One iteration of the loop over get_kernel_config_opts().items().
config_script ==
    /\ pc = "config_script"
    /\ \E ok \in BOOLEAN :
         /\ ok => srcTree = "checked"
         /\ trace' = Append(trace, Entry("config_script",
                                         apply_custom_config(overlay[ovIdx]), ok))
         /\ buildCfg' = IF ok /\ buildCfg = ovIdx THEN ovIdx + 1 ELSE buildCfg
         /\ IF ok
            THEN /\ pc' = IF ovIdx < Len(overlay) THEN "config_script"
                                                  ELSE "make_oldconfig"
                 /\ ovIdx' = ovIdx + 1
                 /\ UNCHANGED result
            ELSE /\ Raise("CalledProcessError")
                 /\ UNCHANGED ovIdx
    /\ UNCHANGED <<stateFile, srcTree, overlay, startRecord, afterFullRun>>
    /\ UNCHANGED <<ivars, mvars>>

make_oldconfig ==
    /\ pc = "make_oldconfig"
    /\ \E ok \in BOOLEAN :
         /\ ok => srcTree = "checked"
         /\ trace' = Append(trace, Entry("make_oldconfig", "", ok))
         /\ buildCfg' = IF ok /\ buildCfg = Len(overlay) + 1
                        THEN Len(overlay) + 2
                        ELSE buildCfg
         /\ CheckedStep(ok, "set_configured")
    /\ UNCHANGED <<stateFile, srcTree, overlay, ovIdx, startRecord,
                   afterFullRun>>
    /\ UNCHANGED <<ivars, mvars>>

\* KernelMachine.set_state(KernelState.SRC_CONFIGURED) in configure_source.
set_configured ==
    /\ pc = "set_configured"
    /\ \E o \in WriteOutcomes :
         /\ stateFile' = set_state(stateFile, SRC_CONFIGURED, o)
         /\ trace' = Append(trace, Entry("set_state", SRC_CONFIGURED,
                                         o = "written"))
    /\ pc' = "bear_make"
    /\ UNCHANGED <<srcTree, buildCfg, overlay, ovIdx, result, startRecord,
                   afterFullRun>>
    /\ UNCHANGED <<ivars, mvars>>

\* build_source: bear -- make; nothing is persisted afterwards.
build_source ==
    /\ pc = "bear_make"
    /\ \E ok \in BOOLEAN :
         /\ ok => srcTree = "checked"
         /\ trace' = Append(trace, Entry("bear_make", "", ok))
         /\ pc' = "idle"
         /\ result' = IF ok THEN "ok" ELSE "CalledProcessError"
    /\ UNCHANGED <<stateFile, srcTree, buildCfg, overlay, ovIdx, startRecord,
                   afterFullRun>>
    /\ UNCHANGED <<ivars, mvars>>

\* The process is terminated from outside while build_bzImage runs.
Killed ==
    /\ pc # "idle"
    /\ pc' = "idle"
    /\ result' = "killed"
    /\ UNCHANGED <<stateFile, srcTree, buildCfg, overlay, ovIdx, trace,
                   startRecord, afterFullRun>>
    /\ UNCHANGED <<ivars, mvars>>

Next ==
    \/ build_bzImage
    \/ git_init
    \/ git_remote_add
    \/ cleanup
    \/ git_fetch
    \/ git_checkout
    \/ set_cloned
    \/ make_defconfig
    \/ config_script
    \/ make_oldconfig
    \/ set_configured
    \/ build_source
    \/ Killed

Spec == Init /\ [][Next]_vars

\* The same pipeline started on a state directory whose record may hold
\* anything.
InitRecord ==
    /\ stateFile \in RecordContents
    /\ srcTree = "absent"
    /\ buildCfg = 0
    /\ overlay \in OverlayLists
    /\ pc = "idle"
    /\ ovIdx = 0
    /\ trace = <<>>
    /\ result = "none"
    /\ startRecord = stateFile
    /\ afterFullRun = FALSE
    /\ partitions = <<>>
    /\ boot_mode = "UEFI"
    /\ parsed = [err |-> "unparsed", plan |-> <<>>]
    /\ cached = <<>>
    /\ ipc = "config"
    /\ loopIdx = 0
    /\ sent = <<>>
    /\ MainNotStarted

SpecRecord == InitRecord /\ [][Next]_vars

(***************************************************************************)
(* scripts/config.py: RootfsConfig.parse                                   *)
(***************************************************************************)
FAT == "fat"
EXT4 == "ext4"
PartitionFormat == {FAT, EXT4}
QemuBootMode == {"UEFI", "BIOS"}

\* Mount points are strings, modelled as sequences of characters.
ROOT == <<"/">>
MountPoints ==
    { <<"/">>,
      <<"/", "a">>,
      <<"/", "a", "/", "b">>,
      <<"/", "c", "d", "e", "f">>,
      <<"a">> }
Sizes == {1, 20}

PartitionSpecs ==
    [format : PartitionFormat, size_gb : Sizes, mount_point : MountPoints]
PartitionLists == UNION {[1..n -> PartitionSpecs] : n \in 0..MaxParts}

\* os.path.isabs on a POSIX path.
isabs(mp) == Len(mp) > 0 /\ mp[1] = "/"

\* The two counters of the loop over conf_sec["partitions"].
efi_count(parts) == Cardinality({k \in 1..Len(parts) : parts[k].format = FAT})
root_count(parts) ==
    Cardinality({k \in 1..Len(parts) : parts[k].mount_point = ROOT})

\* list.sort(key=...): a stable sort; keys[j] is the key of s[j].
StableSort(s, keys) ==
    LET n == Len(s)
        Pos(j) == 1 + Cardinality({k \in 1..n :
                        \/ keys[k] < keys[j]
                        \/ keys[k] = keys[j] /\ k < j})
    IN [p \in 1..n |-> s[CHOOSE j \in 1..n : Pos(j) = p]]

\* enumerate without start=1.
enumerate_from_zero(parts) == [k \in 1..Len(parts) |-> <<parts[k], k - 1>>]

\* [(c, i) for i, c in enumerate(partitions, start=1)]
enumerate_partitions(parts) == [k \in 1..Len(parts) |-> <<parts[k], k>>]

\* The sort with reverse=True: longest mount point first.
sort_longest_first(list) ==
    StableSort(list, [k \in 1..Len(list) |-> 0 - Len(list[k][1].mount_point)])

\* parts_order_list.sort(key=lambda x: len(x[0].mount_point))
sort_by_mount_point_len(list) ==
    StableSort(list, [k \in 1..Len(list) |-> Len(list[k][1].mount_point)])

Failed(e) == [err |-> e, plan |-> <<>>]

\* parse with the root check written as root_count > 1: no "/" is accepted.
parse_accepting_no_root(parts) ==
    IF \E k \in 1..Len(parts) : ~isabs(parts[k].mount_point)
    THEN Failed("Mount point is not an absolute path.")
    ELSE IF efi_count(parts) # 1
    THEN Failed("There must be exactly one EFI partition.")
    ELSE IF root_count(parts) > 1
    THEN Failed("There must be exactly one mount point with '/'.")
    ELSE [err |-> "none",
          plan |-> sort_by_mount_point_len(enumerate_partitions(parts))]

\* RootfsConfig.parse restricted to the partition list: the error it raises
\* or the partitions_with_order it returns.
parse(parts) ==
    IF \E k \in 1..Len(parts) : ~isabs(parts[k].mount_point)
    THEN Failed("Mount point is not an absolute path.")
    ELSE IF efi_count(parts) # 1
    THEN Failed("There must be exactly one EFI partition.")
    ELSE IF root_count(parts) # 1
    THEN Failed("There must be exactly one mount point with '/'.")
    ELSE [err |-> "none",
          plan |-> sort_by_mount_point_len(enumerate_partitions(parts))]

(***************************************************************************)
(* scripts/rootfs.py: pre_install                                          *)
(***************************************************************************)
SHELL_PROMPT_RE == ".*root.*@archiso.*~.*#"
FDISK_PROMPT_RE == "Command.*(m.*for.*help)"

mkfs_cmd(format) ==
    CASE format = FAT -> "mkfs.fat -F 32"
      [] format = EXT4 -> "mkfs.ext4"

\* One run_command: the pattern waited for and the line sent after it; n is
\* the number and path the mount point the pattern or the line is formatted
\* with (0 and <<>> when it has none).
Interaction(expect, line, n, path) ==
    [expect |-> expect, line |-> line, n |-> n, path |-> path]

\* partition_disk without its sort: the list stays in the order parse left.
keep_list_order(list) == list

\* The list numbered again by its current position instead of being sorted.
renumber_by_position(list) == [k \in 1..Len(list) |-> <<list[k][1], k>>]

\* conf_order_list.sort(key=lambda t: t[1]) in partition_disk; the list is the
\* one get_partitions_with_order returns, sorted in place.
sort_by_partition_number(list) ==
    StableSort(list, [k \in 1..Len(list) |-> list[k][2]])

\* run_command(child, expect, line): child.expect matches and the line is
\* sent, or it raises (TIMEOUT or EOF) and the installer is left.
run_command(x, next) ==
    \E matched \in BOOLEAN :
        IF matched
        THEN /\ sent' = Append(sent, x)
             /\ ipc' = next
        ELSE /\ ipc' = "TIMEOUT"
             /\ UNCHANGED sent

parse_config ==
    /\ ipc = "config"
    /\ parsed' = parse(partitions)
    /\ cached' = parse(partitions).plan
    /\ ipc' = IF parse(partitions).err = "none" THEN "stop_reflector"
                                                ELSE "ValueError"
    /\ UNCHANGED <<partitions, boot_mode, loopIdx, sent>>
    /\ UNCHANGED <<kvars, mvars>>

\* The three commands pre_install sends before partition_disk.
pre_install_checks ==
    /\ \/ /\ ipc = "stop_reflector"
          /\ run_command(Interaction(SHELL_PROMPT_RE,
                             "systemctl stop reflector.service", 0, <<>>),
                         "check_uefi")
       \/ /\ ipc = "check_uefi"
          /\ run_command(Interaction(SHELL_PROMPT_RE,
                             "cat /sys/firmware/efi/fw_platform_size", 0, <<>>),
                         "timedatectl")
       \/ /\ ipc = "timedatectl"
          /\ run_command(Interaction(SHELL_PROMPT_RE, "timedatectl", 0, <<>>),
                         "fdisk")
    /\ UNCHANGED <<partitions, boot_mode, parsed, cached, loopIdx>>
    /\ UNCHANGED <<kvars, mvars>>

\* partition_disk up to the in-place sort that precedes the loop.
partition_disk_begin ==
    /\ \/ /\ ipc = "fdisk"
          /\ run_command(Interaction(SHELL_PROMPT_RE, "fdisk /dev/sda", 0, <<>>),
                         "fdisk_g")
          /\ UNCHANGED <<cached, loopIdx>>
       \/ /\ ipc = "fdisk_g"
          /\ run_command(Interaction(FDISK_PROMPT_RE, "g", 0, <<>>), "fdisk_n")
          /\ IF ipc' = "fdisk_n"
             THEN /\ cached' = sort_by_partition_number(cached)
                  /\ loopIdx' = 1
             ELSE UNCHANGED <<cached, loopIdx>>
    /\ UNCHANGED <<partitions, boot_mode, parsed>>
    /\ UNCHANGED <<kvars, mvars>>

\* do_partition(i, c.size_gb) for the entry the loop is at.
do_partition ==
    /\ LET c == cached[loopIdx][1]
           i == cached[loopIdx][2]
       IN \/ /\ ipc = "fdisk_n"
             /\ run_command(Interaction(FDISK_PROMPT_RE, "n", 0, <<>>),
                            "partition_number")
             /\ UNCHANGED loopIdx
          \/ /\ ipc = "partition_number"
             /\ run_command(Interaction("Partition number (i-.*, default i):",
                                        "", i, <<>>),
                            "first_sector")
             /\ UNCHANGED loopIdx
          \/ /\ ipc = "first_sector"
             /\ run_command(Interaction("First sector", "", 0, <<>>),
                            "last_sector")
             /\ UNCHANGED loopIdx
          \/ /\ ipc = "last_sector"
             /\ run_command(Interaction("Last sector", "+sG", c.size_gb, <<>>),
                            IF loopIdx < Len(cached) THEN "fdisk_n"
                                                     ELSE "fdisk_w")
             /\ loopIdx' = IF ipc' = "TIMEOUT" THEN loopIdx ELSE loopIdx + 1
    /\ UNCHANGED <<partitions, boot_mode, parsed, cached>>
    /\ UNCHANGED <<kvars, mvars>>

\* The "w" that ends partition_disk.
partition_disk_write ==
    /\ ipc = "fdisk_w"
    /\ run_command(Interaction(FDISK_PROMPT_RE, "w", 0, <<>>), "mkfs")
    /\ loopIdx' = IF ipc' = "TIMEOUT" THEN loopIdx ELSE 1
    /\ UNCHANGED <<partitions, boot_mode, parsed, cached>>
    /\ UNCHANGED <<kvars, mvars>>

format_disk ==
    /\ \/ /\ ipc = "mkfs"
          /\ run_command(Interaction(SHELL_PROMPT_RE,
                             mkfs_cmd(cached[loopIdx][1].format),
                             cached[loopIdx][2], <<"/", "dev", "/", "sda">>),
                         IF loopIdx < Len(cached) THEN "mkfs" ELSE "fdisk_l")
          /\ loopIdx' = IF ipc' = "TIMEOUT" THEN loopIdx ELSE loopIdx + 1
       \/ /\ ipc = "fdisk_l"
          /\ run_command(Interaction(SHELL_PROMPT_RE, "fdisk -l /dev/sda",
                                     0, <<>>),
                         IF cached[1][1].mount_point # ROOT THEN "mkdir"
                                                            ELSE "mount")
          /\ loopIdx' = IF ipc' = "TIMEOUT" THEN loopIdx ELSE 1
    /\ UNCHANGED <<partitions, boot_mode, parsed, cached>>
    /\ UNCHANGED <<kvars, mvars>>

mount_disk ==
    /\ LET c == cached[loopIdx][1]
           i == cached[loopIdx][2]
       IN \/ /\ ipc = "mkdir"
             /\ run_command(Interaction(SHELL_PROMPT_RE, "mkdir -p /mnt",
                                        0, c.mount_point),
                            "mount")
             /\ UNCHANGED loopIdx
          \/ /\ ipc = "mount"
             /\ run_command(Interaction(SHELL_PROMPT_RE, "mount /dev/sda",
                                        i, c.mount_point),
                            IF loopIdx = Len(cached)
                            THEN "install_base_system"
                            ELSE IF cached[loopIdx + 1][1].mount_point # ROOT
                                 THEN "mkdir"
                                 ELSE "mount")
             /\ loopIdx' = IF ipc' = "TIMEOUT" THEN loopIdx ELSE loopIdx + 1
    /\ UNCHANGED <<partitions, boot_mode, parsed, cached>>
    /\ UNCHANGED <<kvars, mvars>>

NextInstall ==
    \/ parse_config
    \/ pre_install_checks
    \/ partition_disk_begin
    \/ do_partition
    \/ partition_disk_write
    \/ format_disk
    \/ mount_disk

InitInstall ==
    /\ stateFile = "missing"
    /\ srcTree = "absent"
    /\ buildCfg = 0
    /\ overlay = <<>>
    /\ pc = "idle"
    /\ ovIdx = 0
    /\ trace = <<>>
    /\ result = "none"
    /\ startRecord = "missing"
    /\ afterFullRun = FALSE
    /\ partitions \in PartitionLists
    /\ boot_mode \in QemuBootMode
    /\ parsed = [err |-> "unparsed", plan |-> <<>>]
    /\ cached = <<>>
    /\ ipc = "config"
    /\ loopIdx = 0
    /\ sent = <<>>
    /\ MainNotStarted

SpecInstall == InitInstall /\ [][NextInstall]_vars

(***************************************************************************)
(* scripts/utils.py: device names                                          *)
(***************************************************************************)
first_index(list, wanted) ==
    CHOOSE k \in 1..Len(list) :
        /\ k \in wanted
        /\ \A j \in 1..(k - 1) : j \notin wanted

\* dev_partition_contains_root returning the /dev/sda name in both boot modes.
dev_partition_always_sda(list, mode) ==
    LET roots == {k \in 1..Len(list) : list[k][1].mount_point = ROOT}
    IN IF roots = {}
       THEN [disk |-> "ValueError", n |-> 0]
       ELSE [disk |-> "/dev/sda", n |-> list[first_index(list, roots)][2]]

dev_partition_contains_root(list, mode) ==
    LET roots == {k \in 1..Len(list) : list[k][1].mount_point = ROOT}
    IN IF roots = {}
       THEN [disk |-> "ValueError", n |-> 0]
       ELSE [disk |-> IF mode = "UEFI" THEN "/dev/vda" ELSE "/dev/sda",
             n |-> list[first_index(list, roots)][2]]

mount_point_contains_efi(list) ==
    LET fats == {k \in 1..Len(list) : list[k][1].format = FAT}
    IN IF fats = {}
       THEN [disk |-> "ValueError", n |-> 0]
       ELSE [disk |-> "/dev/sda", n |-> list[first_index(list, fats)][2]]

(***************************************************************************)
(* scripts/rootfs.py: build_rootfs                                         *)
(***************************************************************************)
CHANGE_ROOT_PROMPT_RE == "[.*root.*@archiso.*]"

\* The phases build_rootfs calls on the console session, in call order.
Phases == <<"boot_to_console", "pre_install", "install_base_system",
            "change_root", "configure_system", "shutdown">>

\* A sequencer that calls shutdown right after change_root.
AfterPhaseSkippingConfigure(p) ==
    CASE p = "boot_to_console" -> "pre_install"
      [] p = "pre_install" -> "install_base_system"
      [] p = "install_base_system" -> "change_root"
      [] p = "change_root" -> "shutdown"
      [] p = "configure_system" -> "shutdown"
      [] p = "shutdown" -> "returned"

\* What build_rootfs does when phase p has returned.
AfterPhase(p) ==
    CASE p = "boot_to_console" -> "pre_install"
      [] p = "pre_install" -> "install_base_system"
      [] p = "install_base_system" -> "change_root"
      [] p = "change_root" -> "configure_system"
      [] p = "configure_system" -> "shutdown"
      [] p = "shutdown" -> "returned"

\* The positions build_rootfs is left at by an exception.
RootfsErrors == {"TIMEOUT", "EOF", "Exception", "CalledProcessError"}

\* One wait of a phase: run_command (expect, then send the line), expect
\* alone, unlimited_wait_to, or the expect(pexpect.EOF) that ends shutdown.
Wait(kind, x) == [kind |-> kind, x |-> x]

Cmd(expect, line) == Wait("run_command", Interaction(expect, line, 0, <<>>))

Expect(pattern) == Wait("expect", Interaction(pattern, "", 0, <<>>))

root_passwd == "<img_root_passwd>"

PhaseScript(p) ==
    CASE p = "boot_to_console" ->
           (IF boot_mode = "BIOS"
            THEN << Cmd("Automatic boot in", "\\t"),
                    Cmd("initrd=/arch/boot/x86_64/initramfs-linux.img",
                        " console=ttyS0,38400") >>
            ELSE << Cmd("Boot in.*s", "e"),
                    Cmd("archisobasedir", "console=ttyS0,38400 \\n") >>)
           \o << Expect("Started.*OpenSSH Daemon"),
                 Expect("Arch Linux"),
                 Cmd("login", "root"),
                 Cmd(SHELL_PROMPT_RE, "") >>
      [] p = "install_base_system" ->
           << Cmd(SHELL_PROMPT_RE, "sed -i '1i Server = ...' /etc/pacman.d/mirrorlist"),
              Cmd(SHELL_PROMPT_RE, "head -n 2 /etc/pacman.d/mirrorlist"),
              Cmd(SHELL_PROMPT_RE, ""),
              Cmd(SHELL_PROMPT_RE, "pacstrap -K /mnt ..."),
              Wait("unlimited_wait_to", Interaction(SHELL_PROMPT_RE, "", 0, <<>>)),
              Cmd(SHELL_PROMPT_RE, "genfstab -U /mnt >> /mnt/etc/fstab") >>
      [] p = "change_root" ->
           << Cmd(SHELL_PROMPT_RE, "arch-chroot /mnt") >>
      [] p = "configure_system" ->
           << Cmd(CHANGE_ROOT_PROMPT_RE,
                  "ln -sf /usr/share/zoneinfo/Asia/Shanghai /etc/localtime"),
              Cmd(CHANGE_ROOT_PROMPT_RE, "hwclock --systohc"),
              Cmd(CHANGE_ROOT_PROMPT_RE, "echo en_US.UTF-8 UTF-8 >> /etc/locale.gen"),
              Cmd(CHANGE_ROOT_PROMPT_RE, "echo zh_CN.UTF-8 UTF-8 >> /etc/locale.gen"),
              Cmd(CHANGE_ROOT_PROMPT_RE, "locale-gen"),
              Cmd(CHANGE_ROOT_PROMPT_RE, "echo LANG=en_US.UTF-8 > /etc/locale.conf"),
              Cmd(CHANGE_ROOT_PROMPT_RE, "echo arch-qemu > /etc/hostname"),
              Cmd(CHANGE_ROOT_PROMPT_RE, "echo -e '...' >> /etc/hosts"),
              Cmd(CHANGE_ROOT_PROMPT_RE, "passwd root"),
              Cmd("New password: ", root_passwd),
              Cmd("Retype new password: ", root_passwd),
              Cmd(CHANGE_ROOT_PROMPT_RE, ""),
              Cmd(CHANGE_ROOT_PROMPT_RE, "pacman -Sy --noconfirm grub efibootmgr"),
              Wait("run_command",
                   Interaction(CHANGE_ROOT_PROMPT_RE,
                               "grub-install --target=x86_64-efi --efi-directory=",
                               mount_point_contains_efi(cached).n,
                               <<"/", "dev", "/", "sda">>)),
              Wait("unlimited_wait_to",
                   Interaction(CHANGE_ROOT_PROMPT_RE, "", 0, <<>>)),
              Cmd(CHANGE_ROOT_PROMPT_RE, "grub-mkconfig -o /boot/grub/grub.cfg") >>
      [] p = "shutdown" ->
           << Cmd(CHANGE_ROOT_PROMPT_RE, "exit"),
              Cmd(SHELL_PROMPT_RE, "umount -R  /mnt"),
              Cmd(SHELL_PROMPT_RE, "shutdown -h now"),
              Wait("expect_eof", Interaction("EOF", "", 0, <<>>)) >>

\* child.expect(pattern) on its own: it matches, or it raises TIMEOUT.
expect(next) ==
    \E matched \in BOOLEAN :
        /\ ipc' = IF matched THEN next ELSE "TIMEOUT"
        /\ UNCHANGED sent

\* unlimited_wait_to with the default timeout of run_command.
bounded_wait_to(x, next) == run_command(x, next)

\* unlimited_wait_to: expect with timeout=None, then an empty line; the wait
\* cannot time out, it raises only when the stream ends.
unlimited_wait_to(x, next) ==
    \E matched \in BOOLEAN :
        IF matched
        THEN /\ sent' = Append(sent, x)
             /\ ipc' = next
        ELSE /\ ipc' = "EOF"
             /\ UNCHANGED sent

\* An exception of build_rootfs caught and dropped by its caller.
build_rootfs_left == ipc \in {"returned"} \cup RootfsErrors

\* build_rootfs has run to its end.
build_rootfs_returned == ipc = "returned"

ensure_iso_available ==
    /\ ipc = "ensure_iso_available"
    /\ log' = Append(log, "ensure_iso_available")
    /\ \E checksum_found \in BOOLEAN :
         IF ~checksum_found
         THEN /\ ipc' = "Exception"
              /\ UNCHANGED iso
         ELSE IF iso = "good"
              THEN /\ ipc' = "reprpare_rootfs_img"
                   /\ UNCHANGED iso
              ELSE \E downloaded \in {"good", "bad"} :
                       /\ iso' = downloaded
                       /\ ipc' = IF downloaded = "good"
                                 THEN "reprpare_rootfs_img"
                                 ELSE "Exception"
    /\ UNCHANGED <<partitions, boot_mode, parsed, cached, loopIdx, sent>>
    /\ UNCHANGED <<args, mpc, img, child, step, script, disk0, evars>>
    /\ UNCHANGED kvars

\* reprpare_rootfs_img that leaves an existing image in place.
reprpare_keeping_existing ==
    /\ ipc = "reprpare_rootfs_img"
    /\ log' = Append(log, "reprpare_rootfs_img")
    /\ \E created \in BOOLEAN :
         /\ img' = IF img # "absent" THEN img
                   ELSE IF created THEN "new" ELSE "absent"
         /\ ipc' = IF created THEN "start_qemu" ELSE "CalledProcessError"
    /\ UNCHANGED <<partitions, boot_mode, parsed, cached, loopIdx, sent>>
    /\ UNCHANGED <<args, mpc, iso, child, step, script, disk0, evars>>
    /\ UNCHANGED kvars

\* os.remove of an existing image, then qemu-img create with check=True.
reprpare_rootfs_img ==
    /\ ipc = "reprpare_rootfs_img"
    /\ log' = Append(log, "reprpare_rootfs_img")
    /\ \E created \in BOOLEAN :
         /\ img' = IF created THEN "new" ELSE "absent"
         /\ ipc' = IF created THEN "start_qemu" ELSE "CalledProcessError"
    /\ UNCHANGED <<partitions, boot_mode, parsed, cached, loopIdx, sent>>
    /\ UNCHANGED <<args, mpc, iso, child, step, script, disk0, evars>>
    /\ UNCHANGED kvars

\* pexpect.spawn of qemu-system-x86_64 on the image and the ISO.
start_qemu ==
    /\ ipc = "start_qemu"
    /\ log' = Append(log, "start_qemu")
    /\ child' = "spawned"
    /\ ipc' = Phases[1]
    /\ step' = 0
    /\ UNCHANGED <<partitions, boot_mode, parsed, cached, loopIdx, sent>>
    /\ UNCHANGED <<args, mpc, img, iso, script, disk0, evars>>
    /\ UNCHANGED kvars

\* Phase p from its call to its return, one wait at a time; the step that
\* makes the call records it.
RunPhase(p) ==
    /\ LET idx == IF step = 0 THEN 1 ELSE step
           w == PhaseScript(p)[idx]
           last == idx = Len(PhaseScript(p))
           next == IF last THEN AfterPhase(p) ELSE p
       IN /\ CASE w.kind = "run_command" -> run_command(w.x, next)
               [] w.kind = "expect" -> expect(next)
               [] w.kind = "unlimited_wait_to" -> unlimited_wait_to(w.x, next)
               [] w.kind = "expect_eof" -> expect(next)
          /\ child' = IF w.kind = "expect_eof" /\ ipc' = next THEN "eof"
                                                             ELSE child
          /\ step' = IF ipc' \in RootfsErrors THEN idx
                     ELSE IF last THEN 0 ELSE idx + 1
    /\ log' = IF step = 0 THEN Append(log, p) ELSE log
    /\ UNCHANGED <<partitions, boot_mode, parsed, cached, loopIdx>>
    /\ UNCHANGED <<args, mpc, img, iso, script, disk0, evars>>
    /\ UNCHANGED kvars

boot_to_console ==
    /\ ipc = "boot_to_console"
    /\ RunPhase("boot_to_console")

\* The call of pre_install; its waits are the actions of pre_install above.
pre_install ==
    /\ ipc = "pre_install"
    /\ log' = Append(log, "pre_install")
    /\ ipc' = "stop_reflector"
    /\ UNCHANGED <<partitions, boot_mode, parsed, cached, loopIdx, sent>>
    /\ UNCHANGED <<args, mpc, img, iso, child, step, script, disk0, evars>>
    /\ UNCHANGED kvars

install_base_system ==
    /\ ipc = "install_base_system"
    /\ RunPhase("install_base_system")

change_root ==
    /\ ipc = "change_root"
    /\ RunPhase("change_root")

configure_system ==
    /\ ipc = "configure_system"
    /\ RunPhase("configure_system")

shutdown ==
    /\ ipc = "shutdown"
    /\ RunPhase("shutdown")

(***************************************************************************)
(* scripts/clean.py                                                        *)
(***************************************************************************)
\* clean_linux: make clean and set_state(SRC_CLONED) when the source
\* directory exists, clear_state otherwise; the position main is left at.
clean_linux ==
    IF srcTree # "absent"
    THEN \E ok \in BOOLEAN, outcome \in WriteOutcomes :
            /\ ok => srcTree = "checked"
            /\ trace' = Append(trace, Entry("make_clean", "", ok))
            /\ IF ok
               THEN /\ stateFile' = set_state(stateFile, SRC_CLONED, outcome)
                    /\ mpc' = "returned"
               ELSE /\ mpc' = "CalledProcessError"
                    /\ UNCHANGED stateFile
    ELSE /\ IF stateFile = "missing"
            THEN /\ mpc' = "FileNotFoundError"
                 /\ UNCHANGED stateFile
            ELSE /\ stateFile' = "missing"
                 /\ mpc' = "returned"
         /\ UNCHANGED trace

\* distclean: the state directory with the state record and the ISO in it,
\* the image, the source and build trees; rmtree(ignore_errors=True) and
\* remove_file_without_check pass over what is not there.
distclean ==
    /\ stateFile' = "missing"
    /\ iso' = "absent"
    /\ img' = "absent"
    /\ srcTree' = "absent"
    /\ buildCfg' = 0

(***************************************************************************)
(* scripts/main.py                                                         *)
(***************************************************************************)
\* main goes on after a ValueError of parse_config.
AfterParseIgnoringError(err) == "args"

\* Where main is after parse_config: the exception leaves main.
AfterParse(err) == IF err = "none" THEN "args" ELSE "ValueError"

main_parse_config ==
    /\ mpc = "start"
    /\ parsed' = parse(partitions)
    /\ cached' = parse(partitions).plan
    /\ mpc' = AfterParse(parse(partitions).err)
    /\ UNCHANGED <<partitions, boot_mode, ipc, loopIdx, sent>>
    /\ UNCHANGED <<args, img, iso, child, step, log, script, disk0, evars>>
    /\ UNCHANGED kvars

\* distclean with rmtree(linux_src) raising when there is no source tree.
main_distclean_raising_on_missing ==
    /\ mpc = "args"
    /\ args.distclean
    /\ stateFile' = "missing"
    /\ iso' = "absent"
    /\ img' = "absent"
    /\ IF srcTree = "absent"
       THEN /\ mpc' = "FileNotFoundError"
            /\ UNCHANGED <<srcTree, buildCfg>>
       ELSE /\ mpc' = "returned"
            /\ srcTree' = "absent"
            /\ buildCfg' = 0
    /\ log' = Append(log, "distclean")
    /\ UNCHANGED <<overlay, pc, ovIdx, trace, result, startRecord, afterFullRun>>
    /\ UNCHANGED <<args, child, step, script, disk0, evars>>
    /\ UNCHANGED ivars

main_distclean ==
    /\ mpc = "args"
    /\ args.distclean
    /\ distclean
    /\ log' = Append(log, "distclean")
    /\ mpc' = "returned"
    /\ UNCHANGED <<overlay, pc, ovIdx, trace, result, startRecord, afterFullRun>>
    /\ UNCHANGED <<args, child, step, script, disk0, evars>>
    /\ UNCHANGED ivars

main_clean_linux ==
    /\ mpc = "args"
    /\ ~args.distclean
    /\ args.clean_linux
    /\ clean_linux
    /\ log' = Append(log, "clean_linux")
    /\ UNCHANGED <<srcTree, buildCfg, overlay, pc, ovIdx, result, startRecord,
                   afterFullRun>>
    /\ UNCHANGED <<args, img, iso, child, step, script, disk0, evars>>
    /\ UNCHANGED ivars

\* if rebuild_rootfs_set(): build_rootfs()
main_rebuild_rootfs ==
    /\ mpc = "args"
    /\ ~args.distclean
    /\ ~args.clean_linux
    /\ IF args.rebuild_rootfs
       THEN /\ mpc' = "rebuild_rootfs"
            /\ ipc' = "ensure_iso_available"
            /\ log' = Append(log, "build_rootfs")
       ELSE /\ mpc' = "check_img"
            /\ UNCHANGED <<ipc, log>>
    /\ UNCHANGED <<partitions, boot_mode, parsed, cached, loopIdx, sent>>
    /\ UNCHANGED <<args, img, iso, child, step, script, disk0, evars>>
    /\ UNCHANGED kvars

\* The second test of main without the os.path.exists on the image.
main_check_img_ignoring_image ==
    /\ mpc = "check_img"
    /\ IF ~args.force_skip_rootfs
       THEN /\ mpc' = "img_missing"
            /\ ipc' = "ensure_iso_available"
            /\ log' = Append(log, "build_rootfs")
       ELSE /\ mpc' = "linux"
            /\ UNCHANGED <<ipc, log>>
    /\ UNCHANGED <<partitions, boot_mode, parsed, cached, loopIdx, sent>>
    /\ UNCHANGED <<args, img, iso, child, step, script, disk0, evars>>
    /\ UNCHANGED kvars

\* if not os.path.exists(get_rootfs_img_path()) and not force_skip_rootfs_set()
main_check_img ==
    /\ mpc = "check_img"
    /\ IF img = "absent" /\ ~args.force_skip_rootfs
       THEN /\ mpc' = "img_missing"
            /\ ipc' = "ensure_iso_available"
            /\ log' = Append(log, "build_rootfs")
       ELSE /\ mpc' = "linux"
            /\ UNCHANGED <<ipc, log>>
    /\ UNCHANGED <<partitions, boot_mode, parsed, cached, loopIdx, sent>>
    /\ UNCHANGED <<args, img, iso, child, step, script, disk0, evars>>
    /\ UNCHANGED kvars

\* A build_rootfs call of main returns to the statement after it.
main_build_rootfs_return ==
    /\ mpc \in {"rebuild_rootfs", "img_missing"}
    /\ build_rootfs_returned
    /\ mpc' = IF mpc = "rebuild_rootfs" THEN "check_img" ELSE "linux"
    /\ ipc' = "config"
    /\ UNCHANGED <<partitions, boot_mode, parsed, cached, loopIdx, sent>>
    /\ UNCHANGED <<args, img, iso, child, step, log, script, disk0, evars>>
    /\ UNCHANGED kvars

\* if not skip_build_kernel_set(): build_bzImage()
main_skip_build_kernel ==
    /\ mpc = "linux"
    /\ mpc' = IF args.skip_build_kernel THEN "gen_vscode_launch_json"
                                        ELSE "build_bzImage"
    /\ log' = IF args.skip_build_kernel THEN log
                                        ELSE Append(log, "build_bzImage")
    /\ UNCHANGED <<args, img, iso, child, step, script, disk0, evars>>
    /\ UNCHANGED <<kvars, ivars>>

main_build_bzImage ==
    /\ mpc = "build_bzImage"
    /\ result = "none"
    /\ build_bzImage

\* main going on to script generation whatever build_bzImage ended with.
main_build_bzImage_return_on_error ==
    /\ mpc = "build_bzImage"
    /\ pc = "idle"
    /\ result \notin {"none", "running"}
    /\ mpc' = "gen_vscode_launch_json"
    /\ UNCHANGED <<args, img, iso, child, step, log, script, disk0, evars>>
    /\ UNCHANGED <<kvars, ivars>>

main_build_bzImage_return ==
    /\ mpc = "build_bzImage"
    /\ pc = "idle"
    /\ result = "ok"
    /\ mpc' = "gen_vscode_launch_json"
    /\ UNCHANGED <<args, img, iso, child, step, log, script, disk0, evars>>
    /\ UNCHANGED <<kvars, ivars>>

(***************************************************************************)
(* scripts/template.py                                                     *)
(***************************************************************************)
\* rootPartition of QEMU_TEMPLATE_BASE: the device after root= in the script.
build_common_section ==
    dev_partition_contains_root(cached, boot_mode)

\* ensure_dir_exist creates <linux src>/.vscode, and with it the source
\* directory when there is none.
gen_vscode_launch_json ==
    /\ mpc = "gen_vscode_launch_json"
    /\ srcTree' = IF srcTree = "absent" THEN "partial" ELSE srcTree
    /\ log' = Append(log, "gen_vscode_launch_json")
    /\ mpc' = "gen_run_qemu_sh"
    /\ UNCHANGED <<stateFile, buildCfg, overlay, pc, ovIdx, trace, result,
                   startRecord, afterFullRun>>
    /\ UNCHANGED <<args, img, iso, child, step, script, disk0, evars>>
    /\ UNCHANGED ivars

gen_run_qemu_sh ==
    /\ mpc = "gen_run_qemu_sh"
    /\ script' = [script EXCEPT !.run_qemu_sh = build_common_section]
    /\ log' = Append(log, "gen_run_qemu_sh")
    /\ mpc' = "gen_run_qemu_debug_sh"
    /\ UNCHANGED <<args, img, iso, child, step, disk0, evars>>
    /\ UNCHANGED <<kvars, ivars>>

gen_run_qemu_debug_sh ==
    /\ mpc = "gen_run_qemu_debug_sh"
    /\ script' = [script EXCEPT !.run_qemu_debug_sh = build_common_section]
    /\ log' = Append(log, "gen_run_qemu_debug_sh")
    /\ mpc' = "returned"
    /\ UNCHANGED <<args, img, iso, child, step, disk0, evars>>
    /\ UNCHANGED <<kvars, ivars>>

(***************************************************************************)
(* One run of main                                                         *)
(***************************************************************************)
BootEfi == <<"/", "b", "o", "o", "t", "/", "e", "f", "i">>

\* The partition lists main is run with: accepted ones, and one for each
\* error of parse.
MainPlans ==
    { << [format |-> FAT, size_gb |-> 1, mount_point |-> BootEfi],
         [format |-> EXT4, size_gb |-> 20, mount_point |-> ROOT] >>,
      << [format |-> EXT4, size_gb |-> 20, mount_point |-> ROOT],
         [format |-> FAT, size_gb |-> 1, mount_point |-> <<"/", "a">>] >>,
      << [format |-> FAT, size_gb |-> 1, mount_point |-> <<"/", "a", "/", "b">>],
         [format |-> EXT4, size_gb |-> 1, mount_point |-> <<"/", "a">>],
         [format |-> EXT4, size_gb |-> 20, mount_point |-> ROOT] >>,
      << [format |-> EXT4, size_gb |-> 20, mount_point |-> ROOT] >>,
      << [format |-> FAT, size_gb |-> 1, mount_point |-> BootEfi] >>,
      << [format |-> FAT, size_gb |-> 1, mount_point |-> <<"a">>],
         [format |-> EXT4, size_gb |-> 20, mount_point |-> ROOT] >> }

\* What earlier runs can have left of the kernel: nothing, a checked-out
\* tree, a configured build directory.
MainKernelDisks ==
    { [stateFile |-> "missing", srcTree |-> "absent", buildCfg |-> 0],
      [stateFile |-> SRC_CLONED, srcTree |-> "checked", buildCfg |-> 0],
      [stateFile |-> SRC_CONFIGURED, srcTree |-> "checked", buildCfg |-> 3] }

InitMain ==
    /\ \E d \in MainKernelDisks :
         /\ stateFile = d.stateFile
         /\ srcTree = d.srcTree
         /\ buildCfg = d.buildCfg
    /\ overlay = <<"Y">>
    /\ pc = "idle"
    /\ ovIdx = 0
    /\ trace = <<>>
    /\ result = "none"
    /\ startRecord = "missing"
    /\ afterFullRun = FALSE
    /\ partitions \in MainPlans
    /\ boot_mode \in QemuBootMode
    /\ parsed = [err |-> "unparsed", plan |-> <<>>]
    /\ cached = <<>>
    /\ ipc = "config"
    /\ loopIdx = 0
    /\ sent = <<>>
    /\ args \in Args
    /\ mpc = "start"
    /\ img \in {"absent", "old"}
    /\ iso \in {"absent", "bad", "good"}
    /\ child = "none"
    /\ step = 0
    /\ log = <<>>
    /\ script = NoScript
    /\ disk0 = Files
    /\ EnvNotObserved

NextMain ==
    \/ main_parse_config
    \/ main_distclean
    \/ main_clean_linux
    \/ main_rebuild_rootfs
    \/ main_check_img
    \/ ensure_iso_available
    \/ reprpare_rootfs_img
    \/ start_qemu
    \/ boot_to_console
    \/ pre_install
    \/ pre_install_checks
    \/ partition_disk_begin
    \/ do_partition
    \/ partition_disk_write
    \/ format_disk
    \/ mount_disk
    \/ install_base_system
    \/ change_root
    \/ configure_system
    \/ shutdown
    \/ main_build_rootfs_return
    \/ main_skip_build_kernel
    \/ main_build_bzImage
    \/ git_init
    \/ git_remote_add
    \/ cleanup
    \/ git_fetch
    \/ git_checkout
    \/ set_cloned
    \/ make_defconfig
    \/ config_script
    \/ make_oldconfig
    \/ set_configured
    \/ build_source
    \/ main_build_bzImage_return
    \/ gen_vscode_launch_json
    \/ gen_run_qemu_sh
    \/ gen_run_qemu_debug_sh

SpecMain == InitMain /\ [][NextMain]_vars

(***************************************************************************)
(* main --distclean on any directory, then a run of main without flags     *)
(***************************************************************************)
NoFlags == [distclean |-> FALSE, clean_linux |-> FALSE,
            rebuild_rootfs |-> FALSE, force_skip_rootfs |-> FALSE,
            skip_build_kernel |-> FALSE]

\* What main --distclean can find: any record, no source tree, a partial
\* or a checked-out one, no build directory or a configured one.
DistcleanKernelDisks ==
    [stateFile : RecordContents,
     srcTree : {"absent", "partial", "checked"},
     buildCfg : {0, 3}]

InitDistclean ==
    /\ \E d \in DistcleanKernelDisks :
         /\ stateFile = d.stateFile
         /\ srcTree = d.srcTree
         /\ buildCfg = d.buildCfg
    /\ overlay = <<"Y">>
    /\ pc = "idle"
    /\ ovIdx = 0
    /\ trace = <<>>
    /\ result = "none"
    /\ startRecord = "missing"
    /\ afterFullRun = FALSE
    /\ partitions \in MainPlans
    /\ boot_mode \in QemuBootMode
    /\ parsed = [err |-> "unparsed", plan |-> <<>>]
    /\ cached = <<>>
    /\ ipc = "config"
    /\ loopIdx = 0
    /\ sent = <<>>
    /\ args \in {a \in Args : a.distclean /\ ~a.rebuild_rootfs
                                /\ ~a.force_skip_rootfs /\ ~a.skip_build_kernel}
    /\ mpc = "start"
    /\ img \in {"absent", "old"}
    /\ iso \in {"absent", "good"}
    /\ child = "none"
    /\ step = 0
    /\ log = <<>>
    /\ script = NoScript
    /\ disk0 = Files
    /\ EnvNotObserved

\* The process of main --distclean has ended and main is started again,
\* without flags: a new process parses the configuration anew; disk0 keeps
\* the files the first run found.
main_next_run ==
    /\ mpc = "returned"
    /\ args.distclean
    /\ args' = NoFlags
    /\ mpc' = "start"
    /\ log' = <<>>
    /\ parsed' = [err |-> "unparsed", plan |-> <<>>]
    /\ cached' = <<>>
    /\ UNCHANGED <<partitions, boot_mode, ipc, loopIdx, sent>>
    /\ UNCHANGED <<img, iso, child, step, script, disk0, evars>>
    /\ UNCHANGED kvars

NextDistclean ==
    \/ main_parse_config
    \/ main_distclean
    \/ main_next_run
    \/ main_rebuild_rootfs
    \/ main_check_img
    \/ ensure_iso_available
    \/ reprpare_rootfs_img
    \/ start_qemu
    \/ boot_to_console
    \/ pre_install
    \/ pre_install_checks
    \/ partition_disk_begin
    \/ do_partition
    \/ partition_disk_write
    \/ format_disk
    \/ mount_disk
    \/ install_base_system
    \/ change_root
    \/ configure_system
    \/ shutdown
    \/ main_build_rootfs_return
    \/ main_skip_build_kernel
    \/ main_build_bzImage
    \/ git_init
    \/ git_remote_add
    \/ cleanup
    \/ git_fetch
    \/ git_checkout
    \/ set_cloned
    \/ make_defconfig
    \/ config_script
    \/ make_oldconfig
    \/ set_configured
    \/ build_source
    \/ main_build_bzImage_return
    \/ gen_vscode_launch_json
    \/ gen_run_qemu_sh
    \/ gen_run_qemu_debug_sh

SpecDistclean == InitDistclean /\ [][NextDistclean]_vars

(***************************************************************************)
(* scripts/utils.py: get_cpu_cores_minus_one                               *)
(***************************************************************************)
\* cores - 1 without the max(.., 1).
cores_minus_one_without_floor(count) ==
    LET cores == IF count = 0 THEN 1 ELSE count
    IN cores - 1

\* cores = os.cpu_count() or 1; return max(cores - 1, 1)
get_cpu_cores_minus_one(count) ==
    LET cores == IF count = 0 THEN 1 ELSE count
    IN IF cores - 1 >= 1 THEN cores - 1 ELSE 1

\* jobs = get_cpu_cores_minus_one() at the head of build_source.
build_source_jobs ==
    /\ jobs = -1
    /\ jobs' = get_cpu_cores_minus_one(cpu_count)
    /\ UNCHANGED <<cpu_count, console, consumed>>
    /\ UNCHANGED <<args, mpc, img, iso, child, step, log, script, disk0>>
    /\ UNCHANGED <<kvars, ivars>>

InitJobs ==
    /\ stateFile = SRC_CONFIGURED
    /\ srcTree = "checked"
    /\ buildCfg = 2
    /\ overlay = <<>>
    /\ pc = "idle"
    /\ ovIdx = 0
    /\ trace = <<>>
    /\ result = "none"
    /\ startRecord = "missing"
    /\ afterFullRun = FALSE
    /\ partitions = <<>>
    /\ boot_mode = "UEFI"
    /\ parsed = [err |-> "unparsed", plan |-> <<>>]
    /\ cached = <<>>
    /\ ipc = "config"
    /\ loopIdx = 0
    /\ sent = <<>>
    /\ args = [distclean |-> FALSE, clean_linux |-> FALSE,
               rebuild_rootfs |-> FALSE, force_skip_rootfs |-> FALSE,
               skip_build_kernel |-> FALSE]
    /\ mpc = "none"
    /\ img = "absent"
    /\ iso = "absent"
    /\ child = "none"
    /\ step = 0
    /\ log = <<>>
    /\ script = NoScript
    /\ disk0 = Files
    /\ cpu_count \in 0..MaxCores
    /\ jobs = -1
    /\ console = <<>>
    /\ consumed = <<>>

NextJobs == build_source_jobs

SpecJobs == InitJobs /\ [][NextJobs]_vars

(***************************************************************************)
(* scripts/rootfs.py: what the waits of set_root_password match            *)
(***************************************************************************)
\* Texts the console of the installed system shows around passwd: the
\* change-root prompt "[root@archiso /]# ", the two password prompts, the
\* closing message of passwd and the echo of the typed command.
ROOT_PROMPT_TEXT ==
    <<"[", "r", "o", "o", "t", "@", "a", "r", "c", "h", "i", "s", "o", " ",
      "/", "]", "#", " ">>

NEW_PASSWORD_TEXT ==
    <<"N", "e", "w", " ", "p", "a", "s", "s", "w", "o", "r", "d", ":", " ">>

RETYPE_PASSWORD_TEXT ==
    <<"R", "e", "t", "y", "p", "e", " ", "n", "e", "w", " ", "p", "a", "s",
      "s", "w", "o", "r", "d", ":", " ">>

PASSWD_UPDATED_TEXT ==
    <<"p", "a", "s", "s", "w", "d", ":", " ", "p", "a", "s", "s", "w", "o",
      "r", "d", " ", "u", "p", "d", "a", "t", "e", "d", " ", "s", "u", "c",
      "c", "e", "s", "s", "f", "u", "l", "l", "y">>

PASSWD_ECHO_TEXT ==
    <<"p", "a", "s", "s", "w", "d", " ", "r", "o", "o", "t">>

ConsoleTexts ==
    {ROOT_PROMPT_TEXT, NEW_PASSWORD_TEXT, RETYPE_PASSWORD_TEXT,
     PASSWD_UPDATED_TEXT, PASSWD_ECHO_TEXT}

\* CHANGE_ROOT_PROMPT_RE as re.compile reads it: the brackets are not
\* escaped, so the pattern is one character class with these members.
CHANGE_ROOT_PROMPT_CLASS ==
    {".", "*", "r", "o", "t", "@", "a", "c", "h", "i", "s"}

\* The characters of the patterns that have no special character.
PatternText(pattern) ==
    CASE pattern = "New password: " -> NEW_PASSWORD_TEXT
      [] pattern = "Retype new password: " -> RETYPE_PASSWORD_TEXT

Least(S) == CHOOSE i \in S : \A j \in S : i <= j

\* child.expect(pattern) on the unread output: the index at which the first
\* match ends, 0 when nothing matches.
search(pattern, text) ==
    IF pattern = CHANGE_ROOT_PROMPT_RE
    THEN LET hits == {i \in 1..Len(text) : text[i] \in CHANGE_ROOT_PROMPT_CLASS}
         IN IF hits = {} THEN 0 ELSE Least(hits)
    ELSE LET w == PatternText(pattern)
             hits == {i \in 1..(Len(text) - Len(w) + 1) :
                         SubSeq(text, i, i + Len(w) - 1) = w}
         IN IF hits = {} THEN 0 ELSE Least(hits) + Len(w) - 1

\* Index in configure_system of the wait that sends "passwd root", and of
\* the first wait of setup_grub.
PasswdStep == 9
GrubStep == 13

\* The virtual machine writes one more text to the serial console.
vm_output ==
    /\ ipc = "configure_system"
    /\ Len(console) < MaxConsole
    /\ \E t \in ConsoleTexts : console' = console \o t
    /\ UNCHANGED <<cpu_count, jobs, consumed>>
    /\ UNCHANGED <<args, mpc, img, iso, child, step, log, script, disk0>>
    /\ UNCHANGED <<kvars, ivars>>

\* run_command of set_root_password and of the first command of setup_grub:
\* the pattern is found in the unread output, which is consumed up to the end
\* of the match, and the line is sent.
set_root_password ==
    /\ ipc = "configure_system"
    /\ step \in PasswdStep..GrubStep
    /\ LET x == PhaseScript("configure_system")[step].x
           e == search(x.expect, console)
       IN /\ e > 0
          /\ consumed' = Append(consumed, SubSeq(console, 1, e))
          /\ console' = SubSeq(console, e + 1, Len(console))
          /\ sent' = Append(sent, x)
    /\ step' = step + 1
    /\ ipc' = IF step = GrubStep THEN "setup_grub" ELSE ipc
    /\ UNCHANGED <<partitions, boot_mode, parsed, cached, loopIdx>>
    /\ UNCHANGED <<cpu_count, jobs>>
    /\ UNCHANGED <<args, mpc, img, iso, child, log, script, disk0>>
    /\ UNCHANGED kvars

\* The pattern does not show up in time: child.expect raises TIMEOUT.
set_root_password_timeout ==
    /\ ipc = "configure_system"
    /\ step \in PasswdStep..GrubStep
    /\ search(PhaseScript("configure_system")[step].x.expect, console) = 0
    /\ ipc' = "TIMEOUT"
    /\ UNCHANGED <<partitions, boot_mode, parsed, cached, loopIdx, sent>>
    /\ UNCHANGED mvars
    /\ UNCHANGED kvars

InitConsole ==
    /\ stateFile = "missing"
    /\ srcTree = "absent"
    /\ buildCfg = 0
    /\ overlay = <<>>
    /\ pc = "idle"
    /\ ovIdx = 0
    /\ trace = <<>>
    /\ result = "none"
    /\ startRecord = "missing"
    /\ afterFullRun = FALSE
    /\ partitions = <<>>
    /\ boot_mode \in QemuBootMode
    /\ parsed = [err |-> "unparsed", plan |-> <<>>]
    /\ cached = <<>>
    /\ ipc = "configure_system"
    /\ loopIdx = 0
    /\ sent = <<>>
    /\ args = [distclean |-> FALSE, clean_linux |-> FALSE,
               rebuild_rootfs |-> FALSE, force_skip_rootfs |-> FALSE,
               skip_build_kernel |-> FALSE]
    /\ mpc = "none"
    /\ img = "new"
    /\ iso = "good"
    /\ child = "spawned"
    /\ step = PasswdStep
    /\ log = <<>>
    /\ script = NoScript
    /\ disk0 = Files
    /\ cpu_count = 0
    /\ jobs = -1
    /\ console = <<>>
    /\ consumed = <<>>

NextConsole ==
    \/ vm_output
    \/ set_root_password
    \/ set_root_password_timeout

SpecConsole == InitConsole /\ [][NextConsole]_vars

(***************************************************************************)
(* Properties of the build pipeline                                        *)
(***************************************************************************)
ToolEntries(tr) == SelectSeq(tr, LAMBDA e : e.tool \in StageTools)

StagesInOrder(tr) ==
    \A i, j \in 1..Len(ToolEntries(tr)) :
        i < j => StageOf(ToolEntries(tr)[i].tool) <= StageOf(ToolEntries(tr)[j].tool)

ToolFailed(tr) == \E i \in 1..Len(tr) : tr[i].tool \in StageTools /\ ~tr[i].ok

CallReturned == pc = "idle" /\ result \notin {"none", "running", "killed"}

\* C1: a build_bzImage call that began with no state record runs the stages
\* clone, configure, build in that order, and when it has ended the
\* persisted state is SRC_BUILT exactly when all three stages succeeded.
C1_FreshDispatchEndsBuilt ==
    (startRecord = "missing" /\ CallReturned) =>
        /\ StagesInOrder(trace)
        /\ (trace # <<>> => trace[1].tool \in CloneTools)
        /\ (stateFile = SRC_BUILT <=> FullSuccess(trace))

\* C2: a call made after an invocation in which clone, configure and build
\* all succeeded invokes no tool of any of the three stages.
C2_BuiltIsTerminal ==
    afterFullRun => \A i \in 1..Len(trace) : trace[i].tool \notin StageTools

\* C3: a call that began with persisted state SRC_CLONED starts at the
\* configure stage and invokes no clone-stage tool, whatever configure and
\* build do.
C3_ResumeAtConfigure ==
    (startRecord = SRC_CLONED /\ result # "none") =>
        /\ \A i \in 1..Len(trace) : trace[i].tool \notin CloneTools
        /\ (trace # <<>> => trace[1].tool = "make_defconfig")
        /\ (trace = <<>> => pc = "make_defconfig" \/ result = "killed")

C3_Witness ==
    /\ startRecord = SRC_CLONED
    /\ pc = "idle"
    /\ Len(trace) >= 2
    /\ ToolFailed(trace)

\* C4: whatever the state record holds that is not a well-formed record
\* (missing, empty, not JSON, JSON that is no object, no "state" key, an
\* unknown state name), get_state returns NOT_INIT without raising and the
\* build_bzImage call begins with the clone stage.
C4_MalformedRecordIsNotInit ==
    (startRecord \in {"missing"} \cup MalformedRecords /\ result # "none") =>
        /\ get_state(startRecord) = DEFAULT_NOT_INIT
        /\ result \notin {"JSONDecodeError", "TypeError", "KeyError", "ValueError"}
        /\ (trace # <<>> => trace[1].tool \in CloneTools)

\* C5: SRC_CLONED is persisted only when fetch and checkout have succeeded,
\* SRC_CONFIGURED only when defconfig, every overlay call and oldconfig have
\* succeeded; once a tool of the running call has failed, no further tool is
\* started and the call does not write the state record.
C5_PersistedOnlyAfterSuccess ==
    /\ [](/\ stateFile \in {SRC_CLONED, SRC_CONFIGURED} => srcTree = "checked"
          /\ stateFile = SRC_CONFIGURED => buildCfg = Len(overlay) + 2
          /\ ToolFailed(trace) =>
                /\ pc \in {"idle", "cleanup"}
                /\ \A i \in 1..Len(trace) :
                      (trace[i].tool \in StageTools /\ ~trace[i].ok)
                          => i = Len(trace))
    /\ [][ToolFailed(trace') => stateFile' = stateFile]_vars

C5_Witness ==
    /\ stateFile = SRC_CLONED
    /\ startRecord = "missing"
    /\ ToolFailed(trace)
    /\ trace[Len(trace)].tool = "make_oldconfig"
    /\ Len(overlay) = MaxOverlay

RemoteAddFailedAfterInit ==
    /\ pc = "idle"
    /\ result \notin {"none", "running", "killed"}
    /\ Len(trace) = 2
    /\ trace[1] = Entry("git_init", "", TRUE)
    /\ trace[2] = Entry("git_remote_add", "", FALSE)

\* C6: when the tree did not exist, git init succeeded and git remote add
\* failed, the tree is gone when the error has reached the caller and
\* get_state still answers NOT_INIT.
C6_FailedRemoteAddRemovesTree ==
    RemoteAddFailedAfterInit =>
        /\ srcTree = "absent"
        /\ get_state(stateFile) = DEFAULT_NOT_INIT

C6_Witness == RemoteAddFailedAfterInit /\ result = "CalledProcessError"

\* C7: whenever no call is running (also after a call was killed) and
\* get_state answers NOT_INIT, the source tree is absent or has its remote
\* registered.
C7_NoStateMeansSafeToInit ==
    (pc = "idle" /\ get_state(stateFile) = DEFAULT_NOT_INIT) =>
        srcTree \in {"absent", "remote", "fetched", "checked"}

(***************************************************************************)
(* Properties of the partition planner and pre_install                     *)
(***************************************************************************)
Mounts == SelectSeq(sent, LAMBDA x : x.line = "mount /dev/sda")

\* p is a path-prefix parent of q.
IsParent(p, q) ==
    /\ Len(p) < Len(q)
    /\ SubSeq(q, 1, Len(p)) = p
    /\ (p = ROOT \/ q[Len(p) + 1] = "/")

\* C8: pre_install mounts "/" first and mounts no partition before the
\* partition whose mount point is its path-prefix parent.
C8_MountsParentsFirst ==
    /\ Mounts # <<>> => Mounts[1].path = ROOT
    /\ \A j, k \in 1..Len(Mounts) :
          j < k => ~IsParent(Mounts[k].path, Mounts[j].path)

\* The lines partition_disk and format_disk are to send for a declared list:
\* fdisk, g, then per partition in declaration order n, its number, the
\* default first sector and its size, then w, then one mkfs per partition in
\* declaration order, then fdisk -l.
CreateLines(parts, k) ==
    << Interaction(FDISK_PROMPT_RE, "n", 0, <<>>),
       Interaction("Partition number (i-.*, default i):", "", k, <<>>),
       Interaction("First sector", "", 0, <<>>),
       Interaction("Last sector", "+sG", parts[k].size_gb, <<>>) >>

MkfsLine(parts, k) ==
    Interaction(SHELL_PROMPT_RE,
                IF parts[k].format = FAT THEN "mkfs.fat -F 32" ELSE "mkfs.ext4",
                k, <<"/", "dev", "/", "sda">>)

ExpectedDiskLines(parts) ==
    LET n == Len(parts) IN
    << Interaction(SHELL_PROMPT_RE, "fdisk /dev/sda", 0, <<>>),
       Interaction(FDISK_PROMPT_RE, "g", 0, <<>>) >>
    \o [x \in 1..(4 * n) |-> CreateLines(parts, ((x - 1) \div 4) + 1)[((x - 1) % 4) + 1]]
    \o << Interaction(FDISK_PROMPT_RE, "w", 0, <<>>) >>
    \o [k \in 1..n |-> MkfsLine(parts, k)]
    \o << Interaction(SHELL_PROMPT_RE, "fdisk -l /dev/sda", 0, <<>>) >>

\* What has been sent after the three commands that precede partition_disk,
\* up to the end of format_disk.
DiskLinesSent ==
    LET last == IF Len(sent) < 3 + Len(ExpectedDiskLines(partitions))
                THEN Len(sent)
                ELSE 3 + Len(ExpectedDiskLines(partitions))
    IN SubSeq(sent, 4, last)

IsPrefix(s, t) == Len(s) <= Len(t) /\ SubSeq(t, 1, Len(s)) = s

\* C9: the label command g is sent once, before any partition is created;
\* the partitions are created with numbers 1..N ascending and their declared
\* sizes; w follows the last creation; then the partitions are formatted in
\* creation order, each with the mkfs command of its declared format.
C9_CreateAndFormatInCreationOrder ==
    /\ IsPrefix(DiskLinesSent, ExpectedDiskLines(partitions))
    /\ ipc \in {"mkdir", "mount", "install_base_system"} =>
          DiskLinesSent = ExpectedDiskLines(partitions)

C9_Witness ==
    /\ ipc = "install_base_system"
    /\ Len(partitions) = MaxParts
    /\ parsed.plan[1][2] # 1
    /\ \E k \in 1..Len(partitions) : partitions[k].size_gb # partitions[1].size_gb

AllAbsolute == \A k \in 1..Len(partitions) : isabs(partitions[k].mount_point)
OneRoot ==
    Cardinality({k \in 1..Len(partitions) : partitions[k].mount_point = ROOT}) = 1
OneFat ==
    Cardinality({k \in 1..Len(partitions) : partitions[k].format = FAT}) = 1

\* The k-th declared partition has number k and nothing else is in the plan.
NumberedInDeclarationOrder ==
    /\ parsed.err = "none"
    /\ Len(parsed.plan) = Len(partitions)
    /\ \A k \in 1..Len(partitions) :
          \E e \in 1..Len(parsed.plan) : parsed.plan[e] = <<partitions[k], k>>

C12_MountOrderParentsFirst ==
    parsed.err = "none" =>
        /\ parsed.plan[1][1].mount_point = ROOT
        /\ \A j, k \in 1..Len(parsed.plan) :
              j < k => ~IsParent(parsed.plan[k][1].mount_point,
                                 parsed.plan[j][1].mount_point)

\* A nested mount point is declared before its parent, which is not "/".
C12_Witness ==
    /\ parsed.err = "none"
    /\ \E j, k \in 1..Len(partitions) :
          /\ j < k
          /\ partitions[k].mount_point # ROOT
          /\ IsParent(partitions[k].mount_point, partitions[j].mount_point)

\* The depth of a mount point: its number of separators, "/" itself being at
\* depth 0.
Separators(mp) ==
    IF mp = ROOT THEN 0 ELSE Cardinality({i \in 1..Len(mp) : mp[i] = "/"})

\* C13: the mount order parse returns is the declared list stably sorted by
\* the number of separators of the mount point: fewer separators come first,
\* equal counts keep their declaration order.
C13_MountOrderBySeparators ==
    parsed.err = "none" =>
        \A p, q \in 1..Len(parsed.plan) :
            p < q =>
                \/ Separators(parsed.plan[p][1].mount_point)
                     < Separators(parsed.plan[q][1].mount_point)
                \/ /\ Separators(parsed.plan[p][1].mount_point)
                        = Separators(parsed.plan[q][1].mount_point)
                   /\ parsed.plan[p][2] < parsed.plan[q][2]

\* The place of a persisted state in NOT_INIT < SRC_CLONED < SRC_CONFIGURED <
\* SRC_BUILT.
StateRank(s) ==
    CASE s = SRC_CLONED -> 1
      [] s = SRC_CONFIGURED -> 2
      [] s = SRC_BUILT -> 3
      [] OTHER -> 0

\* C21: a set_state whose record cannot be written does not raise, the stage
\* goes on into the next stage, and get_state afterwards returns what it
\* returned before the write.
C21_UnwritableRecordIsHarmless ==
    [][(pc \in {"set_cloned", "set_configured"} /\ result' # "killed") =>
          /\ result' = result
          /\ pc' = IF pc = "set_cloned" THEN "make_defconfig" ELSE "bear_make"
          /\ ~trace'[Len(trace')].ok
                => get_state(stateFile') = get_state(stateFile)]_vars

\* C30: while build_bzImage runs the persisted state never moves backward,
\* and a write made after the tools of stage k persists the state of rank k.
C30_PersistedStateOnlyAdvances ==
    [][pc # "idle" =>
          /\ StateRank(get_state(stateFile')) >= StateRank(get_state(stateFile))
          /\ (pc \in {"set_cloned", "set_configured"}
                /\ result' # "killed" /\ trace'[Len(trace')].ok)
                => StateRank(get_state(stateFile'))
                      = StageOf(trace[Len(trace)].tool)]_vars

ConfigureEntries(tr) == SelectSeq(tr, LAMBDA e : e.tool \in ConfigureTools)

\* The flag of each tag: boolean-enable, boolean-disable, module-enable,
\* string-value, numeric-value.
FlagOfTag(tag) ==
    CASE tag = "Y" -> "--enable"
      [] tag = "N" -> "--disable"
      [] tag = "M" -> "--module"
      [] tag = "Str" -> "--set-str"
      [] tag = "Num" -> "--set-val"

\* The calls of a complete configure stage: the baseline, one call per
\* overlay entry in declared order, the normalization pass.
ExpectedConfigure ==
    << [tool |-> "make_defconfig", arg |-> ""] >>
    \o [k \in 1..Len(overlay) |->
           [tool |-> "config_script", arg |-> FlagOfTag(overlay[k])]]
    \o << [tool |-> "make_oldconfig", arg |-> ""] >>

\* C24: the calls of the configure stage are, in order, the baseline once,
\* one configuration-script call per overlay entry in declared order with the
\* flag of its tag, and the normalization pass once; a call is made only
\* after the one before it succeeded, and SRC_CONFIGURED is written only
\* after all of them succeeded.
C24_ConfigureCallsInOrder ==
    LET ce == ConfigureEntries(trace)
    IN /\ Len(ce) <= Len(ExpectedConfigure)
       /\ \A k \in 1..Len(ce) :
             /\ ce[k].tool = ExpectedConfigure[k].tool
             /\ ce[k].arg = ExpectedConfigure[k].arg
             /\ k < Len(ce) => ce[k].ok
       /\ (\E k \in 1..Len(trace) :
              trace[k].tool = "set_state" /\ trace[k].arg = SRC_CONFIGURED)
             => /\ Len(ce) = Len(ExpectedConfigure)
                /\ \A k \in 1..Len(ce) : ce[k].ok

C24_Witness ==
    /\ pc = "bear_make"
    /\ stateFile = SRC_CONFIGURED
    /\ Len(overlay) = MaxOverlay
    /\ overlay[1] = "Str"
    /\ overlay[2] = "N"
    /\ Len(ConfigureEntries(trace)) = Len(overlay) + 2

(***************************************************************************)
(* Properties of the waits on the console                                  *)
(***************************************************************************)
Contains(text, w) ==
    \E i \in 1..(Len(text) - Len(w) + 1) : SubSeq(text, i, i + Len(w) - 1) = w

\* The text shows the change-root prompt: "[", then the user "root", then the
\* host marker "@archiso", then "]".
ContainsRootPrompt(text) ==
    \E j, k \in 1..Len(text) :
        /\ j + 4 <= k
        /\ k + 7 <= Len(text)
        /\ SubSeq(text, j, j + 3) = <<"r", "o", "o", "t">>
        /\ SubSeq(text, k, k + 7) = <<"@", "a", "r", "c", "h", "i", "s", "o">>
        /\ \E a \in 1..(j - 1) : text[a] = "["
        /\ \E b \in (k + 8)..Len(text) : text[b] = "]"

\* The wait whose match is the k-th of the session.
WaitOf(k) == PhaseScript("configure_system")[PasswdStep + k - 1].x

\* C27: a wait on CHANGE_ROOT_PROMPT_RE is satisfied only by output that
\* contains the change-root prompt with its user and host marker.
C27_ChangeRootPromptIsSpecific ==
    \A k \in 1..Len(consumed) :
        WaitOf(k).expect = CHANGE_ROOT_PROMPT_RE
            => ContainsRootPrompt(consumed[k])

\* C28: after "passwd root" the password is sent twice and no more, the first
\* time after "New password: " was read and the second time after "Retype
\* new password: " was read, and the first command of setup_grub is sent
\* only after the change-root prompt was read again.
C28_PasswordTwoPromptProtocol ==
    /\ \A k \in 1..Len(sent) : sent[k] = WaitOf(k)
    /\ Len(sent) >= 1 => sent[1].line = "passwd root"
    /\ Len(sent) >= 2 => /\ sent[2].line = root_passwd
                         /\ Contains(consumed[2], NEW_PASSWORD_TEXT)
    /\ Len(sent) >= 3 => /\ sent[3].line = root_passwd
                         /\ Contains(consumed[3], RETYPE_PASSWORD_TEXT)
    /\ Cardinality({k \in 1..Len(sent) : sent[k].line = root_passwd}) <= 2
    /\ Len(sent) >= 5 =>
          /\ sent[5].line = "pacman -Sy --noconfirm grub efibootmgr"
          /\ \/ ContainsRootPrompt(consumed[4])
             \/ ContainsRootPrompt(consumed[5])

(***************************************************************************)
(* Properties of one run of main                                           *)
(***************************************************************************)
ExamplePlan ==
    << [format |-> FAT, size_gb |-> 1, mount_point |-> BootEfi],
       [format |-> EXT4, size_gb |-> 20, mount_point |-> ROOT] >>

\* C14: for the plan [{FAT,1,"/boot/efi"}, {EXT4,20,"/"}] in UEFI mode the
\* FAT partition has number 1 and the EXT4 partition number 2, the mount order
\* is "/" then "/boot/efi", and the root device of the launch scripts is
\* /dev/vda2.
C14_ExamplePlanUefi ==
    (partitions = ExamplePlan /\ boot_mode = "UEFI" /\ mpc # "start") =>
        /\ parsed = [err |-> "none",
                     plan |-> << <<ExamplePlan[2], 2>>, <<ExamplePlan[1], 1>> >>]
        /\ build_common_section = [disk |-> "/dev/vda", n |-> 2]
        /\ script.run_qemu_sh \in {NoDevice, [disk |-> "/dev/vda", n |-> 2]}
        /\ script.run_qemu_debug_sh
              \in {NoDevice, [disk |-> "/dev/vda", n |-> 2]}

C14_Witness ==
    /\ partitions = ExamplePlan
    /\ boot_mode = "UEFI"
    /\ child = "eof"
    /\ mpc = "returned"
    /\ script.run_qemu_sh # NoDevice
    /\ script.run_qemu_debug_sh # NoDevice

\* The lines of the installer that name the device node of a partition: the
\* mkfs target, the mount source, the EFI reference of grub-install.
NamesDevice(x) ==
    x.line \in {mkfs_cmd(FAT), mkfs_cmd(EXT4), "mount /dev/sda",
                "grub-install --target=x86_64-efi --efi-directory="}

InstallerDevice(x) ==
    [disk |-> IF x.line = "mount /dev/sda" \/ x.path = <<"/", "dev", "/", "sda">>
              THEN "/dev/sda"
              ELSE "",
     n |-> x.n]

\* The name launch-script generation derives for partition n.
LaunchDevice(n) ==
    dev_partition_contains_root(
        << << [format |-> EXT4, size_gb |-> 1, mount_point |-> ROOT], n >> >>,
        boot_mode)

\* C15: the device name the installer uses for partition n (mkfs, mount,
\* grub-install) is the name launch-script generation derives for partition n
\* under the boot mode.
C15_OneDeviceNaming ==
    \A k \in 1..Len(sent) :
        NamesDevice(sent[k]) =>
            InstallerDevice(sent[k]) = LaunchDevice(sent[k].n)

\* C16: once build_rootfs has been left, by return or by an exception, a
\* session that start_qemu spawned has been closed.
C16_SessionClosedOnEveryExit ==
    (ipc \in {"returned"} \cup RootfsErrors /\ child # "none")
        => child = "closed"

PhasesRun ==
    SelectSeq(log, LAMBDA e : \E k \in 1..Len(Phases) : Phases[k] = e)

\* C17: the phases build_rootfs has called are a prefix of boot_to_console,
\* pre_install, install_base_system, change_root, configure_system, shutdown;
\* a run that completes has called all six, each once; a phase is called only
\* when no wait of another phase is pending.
C17_PhasesOnceInOrder ==
    /\ [](/\ IsPrefix(PhasesRun, Phases)
          /\ child = "eof" => PhasesRun = Phases)
    /\ [][(Len(PhasesRun') > Len(PhasesRun))
             => (step = 0 /\ ipc = PhasesRun'[Len(PhasesRun')])]_vars

C17_Witness ==
    /\ child = "eof"
    /\ ipc = "returned"
    /\ Len(log) > Len(Phases)

\* C18: after a wait timed out nothing happens any more: no line is sent, no
\* phase starts, main builds no kernel and writes no launch script.
C18_TimeoutAbortsMain ==
    /\ [](ipc = "TIMEOUT" =>
            /\ mpc \in {"rebuild_rootfs", "img_missing"}
            /\ pc = "idle" /\ result = "none" /\ trace = <<>>
            /\ script = NoScript
            /\ stateFile = disk0.stateFile
            /\ srcTree = disk0.srcTree)
    /\ [][ipc # "TIMEOUT"]_vars

C18_Witness ==
    /\ ipc = "TIMEOUT"
    /\ ~args.skip_build_kernel
    /\ \E k \in 1..Len(log) : log[k] = "install_base_system"
    /\ Len(sent) > 20

\* C19: when parse_config fails, main has changed no file, spawned no
\* process, written no state record and run neither clean, installation,
\* build nor script generation.
C19_ParseFailureBeforeSideEffects ==
    parsed.err # "none" =>
        /\ Files = disk0
        /\ child = "none"
        /\ log = <<>>
        /\ sent = <<>>
        /\ trace = <<>>
        /\ pc = "idle" /\ result = "none"
        /\ ipc = "config"

C19_Witness ==
    /\ mpc = "ValueError"
    /\ parsed.err = "There must be exactly one mount point with '/'."
    /\ args.distclean
    /\ img = "old"
    /\ stateFile = SRC_CONFIGURED

\* C22: a session is spawned only on an image reprpare_rootfs_img has just
\* created, with nothing sent yet and boot_to_console as the next phase; no
\* phase ever runs on the image main found.
C22_InstallOnFreshImage ==
    /\ [](child # "none" => img = "new")
    /\ [][(child = "none" /\ child' = "spawned") =>
             /\ img = "new"
             /\ log[Len(log)] = "reprpare_rootfs_img"
             /\ sent = <<>>
             /\ PhasesRun = <<>>
             /\ ipc' = "boot_to_console"]_vars

C22_Witness ==
    /\ disk0.img = "old"
    /\ img = "new"
    /\ child = "eof"

\* The steps of main: ISO, image, installation sequencer, build pipeline,
\* launch-script generation.
StepRank(e) ==
    CASE e = "ensure_iso_available" -> 1
      [] e = "reprpare_rootfs_img" -> 2
      [] e = "start_qemu" \/ (\E k \in 1..Len(Phases) : Phases[k] = e) -> 3
      [] e = "build_bzImage" -> 4
      [] e \in {"gen_vscode_launch_json", "gen_run_qemu_sh",
                "gen_run_qemu_debug_sh"} -> 5
      [] OTHER -> 0

InLog(e) == \E k \in 1..Len(log) : log[k] = e

\* C23: the steps main has run are in the order ISO, image, installation,
\* build pipeline, script generation; script generation has started only
\* when the installation that ran saw its shutdown and the build that ran
\* returned normally.
C23_MainStepsInOrder ==
    /\ \A i, j \in 1..Len(log) :
          (i < j /\ StepRank(log[i]) > 0 /\ StepRank(log[j]) > 0)
              => StepRank(log[i]) <= StepRank(log[j])
    /\ InLog("gen_vscode_launch_json") =>
          /\ ipc \notin RootfsErrors
          /\ InLog("build_rootfs") => (child = "eof" /\ PhasesRun = Phases)
          /\ InLog("build_bzImage") => (pc = "idle" /\ result = "ok")

C23_Witness ==
    /\ mpc = "returned"
    /\ InLog("ensure_iso_available")
    /\ InLog("shutdown")
    /\ InLog("build_bzImage")
    /\ InLog("gen_run_qemu_debug_sh")
    /\ \E k \in 1..Len(trace) : trace[k].tool = "bear_make"

\* C25: the -j value is 1 when there is at most one processing unit or the
\* count is unknown, and the count minus one from two units on; it is never
\* below 1.
C25_JobsIsCoresMinusOneFloorOne ==
    jobs # -1 =>
        /\ jobs >= 1
        /\ cpu_count >= 2 => jobs = cpu_count - 1
        /\ cpu_count <= 1 => jobs = 1

C25_Witness ==
    /\ cpu_count = 0
    /\ jobs = 1

\* C26: the wait that follows the pacstrap line never times out, and the
\* genfstab line is sent only after that wait matched.
C26_PacstrapWaitUnbounded ==
    /\ [](\A k \in 1..Len(sent) :
            sent[k].line = "genfstab -U /mnt >> /mnt/etc/fstab" =>
               /\ k > 2
               /\ sent[k - 1] = Interaction(SHELL_PROMPT_RE, "", 0, <<>>)
               /\ sent[k - 2].line = "pacstrap -K /mnt ...")
    /\ [][(sent # <<>> /\ sent[Len(sent)].line = "pacstrap -K /mnt ...")
             => ipc' # "TIMEOUT"]_vars

C26_Witness ==
    \E k \in 1..Len(sent) : sent[k].line = "genfstab -U /mnt >> /mnt/etc/fstab"

\* C29: the list get_partitions_with_order returns is the mount order parse
\* computed, before and after partition_disk, format_disk and mount_disk.
C29_PlanUnchangedByInstaller ==
    ipc \notin {"config", "ValueError"} => cached = parsed.plan

(***************************************************************************)
(* Properties of main with and without the cleaning flags                  *)
(***************************************************************************)
Times(e) == Len(SelectSeq(log, LAMBDA x : x = e))

Cleaning == args.distclean \/ args.clean_linux

\* main has gone past both of its tests on the image.
ImageDecided ==
    mpc \in {"rebuild_rootfs", "img_missing", "linux", "build_bzImage",
             "gen_vscode_launch_json", "gen_run_qemu_sh",
             "gen_run_qemu_debug_sh", "returned"}

\* --rebuild-rootfs is set, or the image was missing when main started and
\* --force-skip-rootfs is not set.
InstallWanted ==
    args.rebuild_rootfs \/ (disk0.img = "absent" /\ ~args.force_skip_rootfs)

\* C31: without --clean and --distclean, main calls build_rootfs at most
\* once and spawns at most one console session, and it calls build_rootfs
\* exactly when --rebuild-rootfs is set or the image is missing and
\* --force-skip-rootfs is not set; with --clean or --distclean there is no
\* installation, no kernel build and no script generation.
C31_InstallAtMostOnceWhenWanted ==
    /\ Times("build_rootfs") <= 1
    /\ Times("start_qemu") <= 1
    /\ Times("build_rootfs") = 1 => (~Cleaning /\ InstallWanted)
    /\ (~Cleaning /\ ImageDecided /\ InstallWanted) => Times("build_rootfs") = 1
    /\ Cleaning =>
          /\ \A k \in 1..Len(log) : log[k] \in {"distclean", "clean_linux"}
          /\ child = "none"
          /\ pc = "idle" /\ result = "none"
          /\ script = NoScript

C31_Witness ==
    /\ mpc = "returned"
    /\ ~Cleaning
    /\ args.rebuild_rootfs
    /\ disk0.img = "absent"
    /\ ~args.force_skip_rootfs
    /\ Times("build_rootfs") = 1
    /\ Times("start_qemu") = 1
    /\ InLog("gen_run_qemu_debug_sh")

\* C32: clean_linux returns normally in both of its cases: with a source
\* directory and a successful make clean the persisted state is SRC_CLONED;
\* without a source directory get_state gives NOT_INIT afterwards, whether
\* or not there was a state record.
C32_CleanLinuxCompletes ==
    InLog("clean_linux") =>
        /\ disk0.srcTree = "absent" =>
              /\ mpc = "returned"
              /\ get_state(stateFile) = DEFAULT_NOT_INIT
        /\ (disk0.srcTree # "absent" /\ trace # <<>> /\ trace[Len(trace)].ok) =>
              /\ mpc = "returned"
              /\ stateFile = SRC_CLONED

(***************************************************************************)
(* Properties of the clone stage on an existing source tree                *)
(***************************************************************************)
\* C33: prepare_source removes the source tree only in a call that found no
\* tree when it started: the call enters git init only when there is no
\* tree, the first tool of a call is git init only when it was entered
\* there, and the tree goes from present to absent only in the except
\* clause of a call whose first tool was git init.
C33_CloneKeepsExistingTree ==
    /\ [][(pc = "idle" /\ pc' = "git_init") => srcTree = "absent"]_vars
    /\ [][(trace = <<>> /\ trace' # <<>> /\ trace'[1].tool = "git_init")
             => pc = "git_init"]_vars
    /\ [][(srcTree # "absent" /\ srcTree' = "absent")
             => (pc = "cleanup" /\ trace # <<>> /\ trace[1].tool = "git_init")]_vars

\* A call that found a tree and whose fetch or checkout failed has ended
\* with the tree still there.
C33_Witness ==
    /\ pc = "idle"
    /\ result = "CalledProcessError"
    /\ trace # <<>>
    /\ trace[1].tool = "git_fetch"
    /\ ~trace[Len(trace)].ok
    /\ trace[Len(trace)].tool = "git_checkout"
    /\ srcTree = "fetched"

(***************************************************************************)
(* Properties of the device numbers pre_install uses                       *)
(***************************************************************************)
Creates ==
    SelectSeq(sent, LAMBDA x : x.expect = "Partition number (i-.*, default i):")

Formats == SelectSeq(sent, LAMBDA x : x.line \in {"mkfs.fat -F 32", "mkfs.ext4"})

OwnMkfs(p) == IF p.format = FAT THEN "mkfs.fat -F 32" ELSE "mkfs.ext4"

OncePerNumber(seq) ==
    \A i, j \in 1..Len(seq) : seq[i].n = seq[j].n => i = j

\* C34: for an accepted plan of N partitions, pre_install creates the
\* partitions at the numbers 1..N of their declaration with their declared
\* sizes, formats no number twice and each number with the mkfs command of
\* the partition declared at it, mounts no number twice and each number at
\* the mount point of the partition declared at it; when pre_install has
\* ended every partition has been created, formatted and mounted once.
C34_EachPartitionOnceAtItsNumber ==
    parsed.err = "none" =>
        LET N == Len(partitions) IN
        /\ Len(Creates) <= N
        /\ \A j \in 1..Len(Creates) : Creates[j].n = j
        /\ \A j \in 1..Len(sent) :
              sent[j].line = "+sG" =>
                 /\ j > 2
                 /\ sent[j - 2].n \in 1..N
                 /\ sent[j - 2].expect = "Partition number (i-.*, default i):"
                 /\ sent[j].n = partitions[sent[j - 2].n].size_gb
        /\ OncePerNumber(Formats)
        /\ \A j \in 1..Len(Formats) :
              /\ Formats[j].n \in 1..Len(Creates)
              /\ Formats[j].line = OwnMkfs(partitions[Formats[j].n])
        /\ OncePerNumber(Mounts)
        /\ \A j \in 1..Len(Mounts) :
              /\ \E i \in 1..Len(Formats) : Formats[i].n = Mounts[j].n
              /\ Mounts[j].path = partitions[Mounts[j].n].mount_point
        /\ ipc = "install_base_system" =>
              /\ Len(Creates) = N
              /\ Len(Formats) = N
              /\ Len(Mounts) = N

C34_Witness ==
    /\ ipc = "install_base_system"
    /\ Len(partitions) = MaxParts
    /\ Len(Mounts) = MaxParts
    /\ partitions[MaxParts].mount_point = ROOT
    /\ partitions[1].format = FAT
    /\ partitions[1].size_gb # partitions[2].size_gb

(***************************************************************************)
(* Properties of distclean and of the run that follows it                  *)
(***************************************************************************)
\* C35: distclean returns normally whatever was missing, and after it
\* get_state gives NOT_INIT and the image, the source tree and the build
\* tree are absent; the run of main without flags that follows calls
\* build_rootfs and its build_bzImage reads NOT_INIT and starts with the
\* first tool of the clone stage.
C35_DistcleanResetsEverything ==
    /\ (args.distclean /\ InLog("distclean")) =>
          /\ mpc = "returned"
          /\ get_state(stateFile) = DEFAULT_NOT_INIT
          /\ img = "absent"
          /\ srcTree = "absent"
          /\ buildCfg = 0
    /\ (~args.distclean /\ ImageDecided) => Times("build_rootfs") = 1
    /\ (~args.distclean /\ InLog("build_bzImage") /\ result # "none") =>
          /\ get_state(startRecord) = DEFAULT_NOT_INIT
          /\ trace # <<>> => trace[1].tool = "git_init"

C35_Witness ==
    /\ ~args.distclean
    /\ mpc = "returned"
    /\ disk0.stateFile = SRC_BUILT
    /\ disk0.srcTree = "checked"
    /\ disk0.buildCfg = 3
    /\ disk0.img = "old"
    /\ disk0.iso = "good"
    /\ Times("build_rootfs") = 1
    /\ InLog("shutdown")
    /\ result = "ok"
    /\ trace[1].tool = "git_init"
    /\ InLog("gen_run_qemu_debug_sh")

\* C20: when a tool of the build pipeline exits non-zero, the error
\* build_bzImage ends with is that tool's CalledProcessError.
C20_ToolErrorPropagatesUnchanged ==
    (CallReturned /\ ToolFailed(trace)) => result = "CalledProcessError"

====
